---- MODULE Spec2Model ----
(***************************************************************************)
(* A model of project3.py: the PasswordGenerator class (generate_password, *)
(* assess_strength, print_strength_meter, display_help, run).              *)
(*                                                                         *)
(* Characters are code points (integers), strings are sequences of code    *)
(* points.  Standard output is a sequence of records, one per print call   *)
(* (display_help, a fixed block of prints, is one record).                 *)
(***************************************************************************)
EXTENDS Integers, Sequences, FiniteSets

VARIABLES
    entry,          \* the method the caller invokes
    pc,             \* the method being executed, or "done"
    argv,           \* the command line handed to run
    self,           \* the PasswordGenerator object's fields
    password,       \* the string generated, or handed to assess_strength
    strength,       \* the PasswordStrength value computed for password
    other,          \* a second string handed to assess_strength
    other_strength, \* the PasswordStrength value computed for other
    gen_outcome,    \* generate_password: "not_called", "returned", "ValueError"
    stdout,         \* what was printed, in order
    exit_code       \* the process's exit status once pc = "done"

vars == <<entry, pc, argv, self, password, strength, other, other_strength,
          gen_outcome, stdout, exit_code>>

(***************************************************************************)
(* Bounds of the model.                                                    *)
(***************************************************************************)
\* A random draw is one of RandomGrain equally spaced points of [0, 1).
RandomGrain == 5
\* The draws of one generate_password call repeat with this period.
RandomPeriod == 2
\* Requested lengths range from min_length - LenMargin to max_length + LenMargin.
LenMargin == 2
\* Strings handed to assess_strength are at most this long.
MaxPwLen == 17

(***************************************************************************)
(* Program constants.                                                      *)
(***************************************************************************)
\* The default of the -l/--length option.
default_length == 12
min_length == 6
max_length == 32

VERY_WEAK == 0
WEAK == 1
MEDIUM == 2
STRONG == 3
VERY_STRONG == 4

PasswordStrength == {VERY_WEAK, WEAK, MEDIUM, STRONG, VERY_STRONG}

(***************************************************************************)
(* The character sets of the string module, as sequences of code points.   *)
(***************************************************************************)
ascii_uppercase == [i \in 1..26 |-> 64 + i]
ascii_lowercase == [i \in 1..26 |-> 96 + i]
digits == [i \in 1..10 |-> 47 + i]
punctuation ==
    [i \in 1..15 |-> 32 + i] \o [i \in 1..7 |-> 57 + i] \o
    [i \in 1..6 |-> 90 + i] \o [i \in 1..4 |-> 122 + i]

Range(s) == {s[i] : i \in 1..Len(s)}

\* str.isupper, str.islower and str.isdigit of one character (Latin-1 range).
isupper(c) == c \in (65..90) \cup (192..214) \cup (216..222)
islower(c) == c \in (97..122) \cup {170, 181, 186} \cup (223..246) \cup (248..255)
isdigit(c) == c \in (48..57) \cup {178, 179, 185}

(***************************************************************************)
(* PasswordGenerator.__init__                                              *)
(***************************************************************************)
NewGenerator ==
    [length |-> 12,
     include_uppercase |-> TRUE,
     include_lowercase |-> TRUE,
     include_numbers |-> TRUE,
     include_symbols |-> TRUE]

(***************************************************************************)
(* generate_password                                                       *)
(***************************************************************************)
\* Charset with include_uppercase ignored: the uppercase letters always join.
CharsetKeepsUppercase(s) ==
    ascii_uppercase \o
    (IF s.include_lowercase THEN ascii_lowercase ELSE <<>>) \o
    (IF s.include_numbers THEN digits ELSE <<>>) \o
    (IF s.include_symbols THEN punctuation ELSE <<>>)

\* The charset generate_password builds from the flags of s.
Charset(s) ==
    (IF s.include_uppercase THEN ascii_uppercase ELSE <<>>) \o
    (IF s.include_lowercase THEN ascii_lowercase ELSE <<>>) \o
    (IF s.include_numbers THEN digits ELSE <<>>) \o
    (IF s.include_symbols THEN punctuation ELSE <<>>)

\* The outcomes of the random source for one call: a draw per position.
RandomStreams == [0..(RandomPeriod - 1) -> 0..(RandomGrain - 1)]

\* SystemRandom().choice(seq) with the draw r: a uniformly chosen element.
choice(seq, r) == seq[((r * Len(seq)) \div RandomGrain) + 1]

\* generate_password drawing one character too few: range(self.length - 1).
generate_password_short(s, rnd) ==
    LET charset == Charset(s) IN
    IF charset = <<>>
    THEN [outcome |-> "ValueError", value |-> <<>>]
    ELSE [outcome |-> "returned",
           value |-> [k \in 1..(s.length - 1) |->
                         choice(charset, rnd[(k - 1) % RandomPeriod])]]

\* generate_password falling back to the lowercase letters instead of
\* raising when no category is selected.
generate_password_fallback(s, rnd) ==
    LET charset == IF Charset(s) = <<>> THEN ascii_lowercase ELSE Charset(s) IN
    [outcome |-> "returned",
     value |-> [k \in 1..s.length |->
                   choice(charset, rnd[(k - 1) % RandomPeriod])]]

\* generate_password on the object s with the random draws rnd.
generate_password(s, rnd) ==
    LET charset == Charset(s) IN
    IF charset = <<>>
    THEN [outcome |-> "ValueError", value |-> <<>>]
    ELSE [outcome |-> "returned",
           value |-> [k \in 1..s.length |->
                         choice(charset, rnd[(k - 1) % RandomPeriod])]]

(***************************************************************************)
(* assess_strength                                                         *)
(***************************************************************************)
Min(a, b) == IF a <= b THEN a ELSE b

in_punctuation(c) == c \in Range(punctuation)

\* assess_strength with the first length test off by one: len(password) > 12.
assess_strength_late12(p) ==
    LET s1 == IF Len(p) > 12 THEN 1 ELSE 0
        s2 == s1 + (IF Len(p) >= 16 THEN 1 ELSE 0)
        s3 == s2 + (IF (\E i \in 1..Len(p) : isupper(p[i])) THEN 1 ELSE 0)
        s4 == s3 + (IF (\E i \in 1..Len(p) : islower(p[i])) THEN 1 ELSE 0)
        s5 == s4 + (IF (\E i \in 1..Len(p) : isdigit(p[i])) THEN 1 ELSE 0)
        s6 == s5 + (IF (\E i \in 1..Len(p) : in_punctuation(p[i])) THEN 1 ELSE 0)
    IN  Min(s6, 4)

\* assess_strength with the second length test turned round: len(password) <= 16.
assess_strength_flipped16(p) ==
    LET s1 == IF Len(p) >= 12 THEN 1 ELSE 0
        s2 == s1 + (IF Len(p) <= 16 THEN 1 ELSE 0)
        s3 == s2 + (IF (\E i \in 1..Len(p) : isupper(p[i])) THEN 1 ELSE 0)
        s4 == s3 + (IF (\E i \in 1..Len(p) : islower(p[i])) THEN 1 ELSE 0)
        s5 == s4 + (IF (\E i \in 1..Len(p) : isdigit(p[i])) THEN 1 ELSE 0)
        s6 == s5 + (IF (\E i \in 1..Len(p) : in_punctuation(p[i])) THEN 1 ELSE 0)
    IN  Min(s6, 4)

\* assess_strength without the lowercase test.
assess_strength_no_lower(p) ==
    LET s1 == IF Len(p) >= 12 THEN 1 ELSE 0
        s2 == s1 + (IF Len(p) >= 16 THEN 1 ELSE 0)
        s3 == s2 + (IF (\E i \in 1..Len(p) : isupper(p[i])) THEN 1 ELSE 0)
        s5 == s3 + (IF (\E i \in 1..Len(p) : isdigit(p[i])) THEN 1 ELSE 0)
        s6 == s5 + (IF (\E i \in 1..Len(p) : in_punctuation(p[i])) THEN 1 ELSE 0)
    IN  Min(s6, 4)

assess_strength(p) ==
    LET s1 == IF Len(p) >= 12 THEN 1 ELSE 0
        s2 == s1 + (IF Len(p) >= 16 THEN 1 ELSE 0)
        s3 == s2 + (IF (\E i \in 1..Len(p) : isupper(p[i])) THEN 1 ELSE 0)
        s4 == s3 + (IF (\E i \in 1..Len(p) : islower(p[i])) THEN 1 ELSE 0)
        s5 == s4 + (IF (\E i \in 1..Len(p) : isdigit(p[i])) THEN 1 ELSE 0)
        s6 == s5 + (IF (\E i \in 1..Len(p) : in_punctuation(p[i])) THEN 1 ELSE 0)
    IN  Min(s6, 4)

(***************************************************************************)
(* Printing.                                                               *)
(***************************************************************************)
\* One print call: what it says (tag), the string it interpolates (text) and,
\* for the meter line, the label and the colour escape.
Line(tag, text) == [tag |-> tag, text |-> text, label |-> "", color |-> ""]

Repeat(c, n) == [i \in 1..n |-> c]

colors == [v \in PasswordStrength |->
    CASE v = 0 -> "91m" [] v = 1 -> "93m" [] v = 2 -> "33m"
      [] v = 3 -> "92m" [] v = 4 -> "92m"]

strength_text == [v \in PasswordStrength |->
    CASE v = 0 -> "Very Weak" [] v = 1 -> "Weak" [] v = 2 -> "Medium"
      [] v = 3 -> "Strong" [] v = 4 -> "Very Strong"]

\* The meter with value filled cells instead of value + 1.
MeterOffByOne(v) == <<91>> \o Repeat(9608, v) \o Repeat(32, 5 - v) \o <<93>>

\* "[" + FULL BLOCK * (value + 1) + " " * (4 - value) + "]"
Meter(v) == <<91>> \o Repeat(9608, v + 1) \o Repeat(32, 4 - v) \o <<93>>

\* What print_strength_meter prints.
print_strength_meter(v) ==
    << Line("Password Strength:", <<>>),
       [tag |-> "meter", text |-> Meter(v),
        label |-> strength_text[v], color |-> colors[v]] >>

\* What display_help prints.
display_help == << Line("help", <<>>) >>

(***************************************************************************)
(* run                                                                     *)
(***************************************************************************)
\* parser.parse_args: the namespace, or the SystemExit(2) of parser.error for
\* an unrecognized argument or a length that is not an integer.
parse_args(a) ==
    [error |-> a.unknown \/ a.length_arg.kind = "text",
     help |-> a.help,
     length |-> IF a.length_arg.kind = "int"
                THEN a.length_arg.value ELSE default_length,
     include_uppercase |-> ~a.no_upper,
     include_lowercase |-> ~a.no_lower,
     include_numbers |-> ~a.no_numbers,
     include_symbols |-> ~a.no_symbols]

\* The fields run assigns from the parsed arguments.
Configure(ns) ==
    [length |-> ns.length,
     include_uppercase |-> ns.include_uppercase,
     include_lowercase |-> ns.include_lowercase,
     include_numbers |-> ns.include_numbers,
     include_symbols |-> ns.include_symbols]

\* The body of run's try block after a password was generated.
PrintResult(pw, v) ==
    << Line("Generated Password:", <<>>), Line("password", pw) >> \o
    print_strength_meter(v) \o
    << Line("Settings used:", <<>>), Line("Length:", <<>>),
       Line("Character types:", <<>>), Line("Tip:", <<>>) >>

\* The length check of run: print the message, sys.exit(1).
LengthError == << Line("Error: Password length must be between 6 and 32", <<>>) >>

\* The except clause without its display_help call.
ExceptHandlerNoHelp ==
    << Line("Error: At least one character type must be selected", <<>>) >>

\* The except clause of run: print the exception, display_help, sys.exit(1).
ExceptHandler ==
    << Line("Error: At least one character type must be selected", <<>>) >> \o
    display_help

\* The length check with the lower limit excluded.
LengthInBoundsStrict(n) == min_length < n /\ n <= max_length

\* The length check of run.
LengthInBounds(n) == min_length <= n /\ n <= max_length

(***************************************************************************)
(* Inputs.                                                                 *)
(***************************************************************************)
\* The lengths a caller asks for: around and between the two limits, and
\* the non-positive ones.
RequestedLengths ==
    {-1, 0} \cup ((min_length - LenMargin)..(max_length + LenMargin))

\* What follows -l/--length on the command line: nothing (the option is
\* absent), an integer, or a text that is no integer.
LengthArgs ==
    {[kind |-> "absent", value |-> 0], [kind |-> "text", value |-> 0]} \cup
    {[kind |-> "int", value |-> n] : n \in RequestedLengths}

\* A command line: the options present; unknown says that it holds an
\* argument the parser does not know.
CommandLines ==
    [help : BOOLEAN, unknown : BOOLEAN, length_arg : LengthArgs,
     no_upper : BOOLEAN, no_lower : BOOLEAN,
     no_numbers : BOOLEAN, no_symbols : BOOLEAN]

NoCommandLine ==
    [help |-> FALSE, unknown |-> FALSE,
     length_arg |-> [kind |-> "absent", value |-> 0],
     no_upper |-> FALSE, no_lower |-> FALSE,
     no_numbers |-> FALSE, no_symbols |-> FALSE]

\* The objects generate_password is called on directly.
Configurations ==
    [length : RequestedLengths, include_uppercase : BOOLEAN,
     include_lowercase : BOOLEAN, include_numbers : BOOLEAN,
     include_symbols : BOOLEAN]

(***************************************************************************)
(* The program: python project3.py ARGS, and a direct call of              *)
(* generate_password on a configured object.                               *)
(***************************************************************************)
InitRun ==
    /\ entry = "run"
    /\ argv \in CommandLines
    /\ self = NewGenerator

InitGenerate ==
    /\ entry = "generate_password"
    /\ argv = NoCommandLine
    /\ self \in Configurations

Init ==
    /\ InitRun \/ InitGenerate
    /\ pc = entry
    /\ password = <<>>
    /\ strength = VERY_WEAK
    /\ other = <<>>
    /\ other_strength = VERY_WEAK
    /\ gen_outcome = "not_called"
    /\ stdout = <<>>
    /\ exit_code = 0

\* run(args), to the return or the exit of the process.
Run ==
    /\ pc = "run"
    /\ pc' = "done"
    /\ UNCHANGED <<entry, argv, other, other_strength>>
    /\ LET ns == parse_args(argv) IN
       IF ns.error
       THEN \* parser.error: SystemExit(2), which except Exception lets through
            /\ exit_code' = 2
            /\ UNCHANGED <<self, password, strength, gen_outcome, stdout>>
       ELSE IF ns.help
       THEN /\ stdout' = stdout \o display_help
            /\ UNCHANGED <<self, password, strength, gen_outcome, exit_code>>
       ELSE IF ~LengthInBounds(ns.length)
       THEN \* sys.exit(1): SystemExit, which except Exception lets through
            /\ stdout' = stdout \o LengthError
            /\ exit_code' = 1
            /\ UNCHANGED <<self, password, strength, gen_outcome>>
       ELSE \E rnd \in RandomStreams :
            LET g == generate_password(Configure(ns), rnd) IN
            /\ self' = Configure(ns)
            /\ gen_outcome' = g.outcome
            /\ IF g.outcome # "returned"
               THEN \* except Exception
                    /\ stdout' = stdout \o ExceptHandler
                    /\ exit_code' = 1
                    /\ UNCHANGED <<password, strength>>
               ELSE /\ password' = g.value
                    /\ strength' = assess_strength(g.value)
                    /\ stdout' = stdout \o
                                 PrintResult(g.value, assess_strength(g.value))
                    /\ UNCHANGED exit_code

\* generate_password(), called on the object as configured.
GeneratePassword ==
    /\ pc = "generate_password"
    /\ pc' = "done"
    /\ \E rnd \in RandomStreams :
         LET g == generate_password(self, rnd) IN
         /\ password' = g.value
         /\ gen_outcome' = g.outcome
    /\ UNCHANGED <<entry, argv, self, strength, other, other_strength,
                   stdout, exit_code>>

Next == Run \/ GeneratePassword

Spec == Init /\ [][Next]_vars

(***************************************************************************)
(* assess_strength and print_strength_meter on given strings.              *)
(***************************************************************************)
\* The characters of the strings handed to assess_strength:
\* "A", "b", "3", "!", the space and "E" with an acute accent.
AssessChars == {65, 98, 51, 33, 32, 201}

\* A string's first characters are free; the rest repeats one character.
HeadLen == 2

Heads == UNION {[1..n -> AssessChars] : n \in 0..HeadLen}

\* head, cut or filled with the character fill, to the length n.
Pad(head, fill, n) ==
    [i \in 1..n |-> IF i <= Len(head) THEN head[i] ELSE fill]

\* "Ab3!Ab3!Ab3!" and "abcdefgh"
ExampleStrong == <<65, 98, 51, 33, 65, 98, 51, 33, 65, 98, 51, 33>>
ExampleWeak == <<97, 98, 99, 100, 101, 102, 103, 104>>

AssessInputs ==
    {Pad(h, f, n) : h \in Heads, f \in AssessChars, n \in 0..MaxPwLen}
    \cup {ExampleStrong, ExampleWeak}

InitAssess ==
    /\ entry = "assess_strength"
    /\ pc = "assess_strength"
    /\ argv = NoCommandLine
    /\ self = NewGenerator
    /\ password \in AssessInputs
    /\ strength = VERY_WEAK
    /\ other = <<>>
    /\ other_strength = VERY_WEAK
    /\ gen_outcome = "not_called"
    /\ stdout = <<>>
    /\ exit_code = 0

\* strength = assess_strength(password)
AssessStrength ==
    /\ pc = "assess_strength"
    /\ strength' = assess_strength(password)
    /\ pc' = "print_strength_meter"
    /\ UNCHANGED <<entry, argv, self, password, other, other_strength,
                   gen_outcome, stdout, exit_code>>

\* print_strength_meter(strength)
PrintStrengthMeter ==
    /\ pc = "print_strength_meter"
    /\ stdout' = stdout \o print_strength_meter(strength)
    /\ pc' = "done"
    /\ UNCHANGED <<entry, argv, self, password, strength, other,
                   other_strength, gen_outcome, exit_code>>

NextAssess == AssessStrength \/ PrintStrengthMeter

SpecAssess == InitAssess /\ [][NextAssess]_vars

(***************************************************************************)
(* assess_strength on two strings.                                         *)
(***************************************************************************)
\* The characters of each category subset, in the order "A", "b", "3", "!".
CategoryHeads ==
    {SelectSeq(<<65, 98, 51, 33>>, LAMBDA c : c \in S) :
        S \in SUBSET {65, 98, 51, 33}}

\* Filled with spaces or with "b".
CompareInputs ==
    {Pad(h, f, n) : h \in CategoryHeads, f \in {32, 98}, n \in 0..MaxPwLen}

InitCompare ==
    /\ entry = "compare"
    /\ pc = "compare"
    /\ argv = NoCommandLine
    /\ self = NewGenerator
    /\ password \in CompareInputs
    /\ strength = VERY_WEAK
    /\ other \in CompareInputs
    /\ other_strength = VERY_WEAK
    /\ gen_outcome = "not_called"
    /\ stdout = <<>>
    /\ exit_code = 0

\* assess_strength(password) and assess_strength(other)
AssessBoth ==
    /\ pc = "compare"
    /\ strength' = assess_strength(password)
    /\ other_strength' = assess_strength(other)
    /\ pc' = "done"
    /\ UNCHANGED <<entry, argv, self, password, other, gen_outcome, stdout,
                   exit_code>>

NextCompare == AssessBoth

SpecCompare == InitCompare /\ [][NextCompare]_vars

(***************************************************************************)
(* Properties.                                                             *)
(***************************************************************************)
Done == pc = "done"

\* The command line was accepted by the parser.
Parsed(a) == ~a.unknown /\ a.length_arg.kind # "text"

\* The length the command line asks for (12 when it names none).
Requested(a) == IF a.length_arg.kind = "int" THEN a.length_arg.value ELSE 12

\* --no-upper --no-lower --no-numbers --no-symbols
AllExcluded(a) == a.no_upper /\ a.no_lower /\ a.no_numbers /\ a.no_symbols

NoCategory(s) ==
    ~s.include_uppercase /\ ~s.include_lowercase /\
    ~s.include_numbers /\ ~s.include_symbols

PrintsPassword == \E i \in 1..Len(stdout) : stdout[i].tag = "password"

\* The characters of the categories enabled in s.
EnabledChars(s) ==
    (IF s.include_uppercase THEN 65..90 ELSE {}) \cup
    (IF s.include_lowercase THEN 97..122 ELSE {}) \cup
    (IF s.include_numbers THEN 48..57 ELSE {}) \cup
    (IF s.include_symbols
     THEN (33..47) \cup (58..64) \cup (91..96) \cup (123..126) ELSE {})

\* C1: for a length in 6..32 and at least one category enabled, the string
\* generate_password returns is exactly as long as the configured length.
C1_LengthExact ==
    (gen_outcome = "returned" /\ self.length >= 6 /\ self.length <= 32
        /\ ~NoCategory(self))
    => Len(password) = self.length

C1_Witness ==
    /\ entry = "generate_password" /\ Done /\ gen_outcome = "returned"
    /\ self.length = 32 /\ Len(password) = 32
    /\ ~self.include_symbols

\* C2: every character of the string generate_password returns belongs to
\* the union of the enabled categories' character sets, and no character of
\* a disabled category appears in it.
C2_CharsFromEnabled ==
    gen_outcome = "returned" =>
        \A i \in 1..Len(password) :
            /\ password[i] \in EnabledChars(self)
            /\ (password[i] \in 65..90 => self.include_uppercase)
            /\ (password[i] \in 97..122 => self.include_lowercase)
            /\ (password[i] \in 48..57 => self.include_numbers)
            /\ (in_punctuation(password[i]) => self.include_symbols)

C2_Witness ==
    /\ Done /\ gen_outcome = "returned"
    /\ ~self.include_uppercase /\ ~self.include_lowercase
    /\ self.include_numbers /\ self.include_symbols
    /\ Len(password) >= 6
    /\ \E i, j \in 1..Len(password) :
          password[i] \in 48..57 /\ in_punctuation(password[j])

\* C3: with all four categories disabled generate_password never returns a
\* string, whatever the length: it raises the error (a ValueError in the
\* code); and a run with all four --no-... options prints no password.
C3_NoCategoryFails ==
    Done =>
        /\ (NoCategory(self) /\ gen_outcome # "not_called")
              => (gen_outcome = "ValueError" /\ password = <<>>)
        /\ (entry = "run" /\ AllExcluded(argv))
              => (gen_outcome # "returned" /\ ~PrintsPassword)
        /\ (entry = "run" /\ AllExcluded(argv) /\ Parsed(argv) /\ ~argv.help
               /\ Requested(argv) >= 6 /\ Requested(argv) <= 32)
              => (gen_outcome = "ValueError" /\ exit_code = 1)

C3_Witness ==
    /\ entry = "run" /\ Done /\ AllExcluded(argv)
    /\ Requested(argv) = 16
    /\ gen_outcome = "ValueError" /\ exit_code = 1 /\ ~PrintsPassword

\* C4: in a run without the help flag, a requested length outside [6, 32]
\* (5 and 33 among them) ends with the length error and exit code 1 before
\* any password is generated; a requested length inside [6, 32] (6 and 32
\* among them) with a category enabled ends with a generated password.
C4_LengthValidation ==
    (entry = "run" /\ Done /\ Parsed(argv) /\ ~argv.help) =>
        /\ (Requested(argv) < 6 \/ Requested(argv) > 32) =>
              /\ exit_code = 1
              /\ gen_outcome = "not_called"
              /\ stdout = LengthError
        /\ (Requested(argv) >= 6 /\ Requested(argv) <= 32
               /\ ~AllExcluded(argv)) =>
              /\ exit_code = 0
              /\ gen_outcome = "returned"
              /\ Len(password) = Requested(argv)
              /\ stdout[2] = Line("password", password)

C4_Witness ==
    /\ entry = "run" /\ Done /\ Parsed(argv) /\ ~argv.help
    /\ Requested(argv) = 33
    /\ exit_code = 1 /\ gen_outcome = "not_called"

\* The run met a length outside the limits (the spec's ValidationError).
ValidationErrorCase ==
    /\ entry = "run" /\ Done /\ Parsed(argv) /\ ~argv.help
    /\ (Requested(argv) < 6 \/ Requested(argv) > 32)

\* The run met a valid length and no category (the spec's ConfigurationError).
ConfigurationErrorCase ==
    /\ entry = "run" /\ Done /\ Parsed(argv) /\ ~argv.help
    /\ Requested(argv) >= 6 /\ Requested(argv) <= 32
    /\ AllExcluded(argv)

ErrorMessages ==
    {"Error: Password length must be between 6 and 32",
     "Error: At least one character type must be selected"}

\* An error message, then the help text, then exit status 1.
MessageHelpExit1 ==
    /\ Len(stdout) = 2
    /\ stdout[1].tag \in ErrorMessages
    /\ stdout[2].tag = "help"
    /\ exit_code = 1

\* An error message and exit status 1, no help text.
MessageExit1 ==
    /\ Len(stdout) = 1
    /\ stdout[1].tag \in ErrorMessages
    /\ exit_code = 1

\* C5 as stated: both error kinds are surfaced by run as a printed error
\* message, followed by the help text, followed by exit status 1.
C5_BothWithHelp ==
    (ValidationErrorCase \/ ConfigurationErrorCase) => MessageHelpExit1

\* C5 as amended: no category selected is surfaced as a printed error
\* message, then the help text, then exit status 1; a length out of bounds
\* is surfaced as a printed error message and exit status 1, without the
\* help text.
C5_HelpOnlyForConfiguration ==
    /\ ConfigurationErrorCase => MessageHelpExit1
    /\ ValidationErrorCase => MessageExit1

C5_Witness ==
    /\ ValidationErrorCase /\ Requested(argv) = 5
    /\ stdout = LengthError /\ exit_code = 1

\* C6: every run ends with exit code 0 or 1: 0 exactly when a password was
\* generated and printed or the help was displayed, 1 on an invalid length
\* and on any other error, a command line the parser rejects included.
C6_ExitCodes ==
    (entry = "run" /\ Done) =>
        /\ exit_code \in {0, 1}
        /\ exit_code = 0 <=>
              \/ gen_outcome = "returned" /\ PrintsPassword
              \/ stdout = display_help
        /\ ~Parsed(argv) => exit_code = 1
        /\ ValidationErrorCase => exit_code = 1

\* C10: a successful run reports a strength of at least WEAK, and so does
\* assess_strength for every string generate_password returns for a length
\* in 6..32.
C10_NeverVeryWeak ==
    /\ (entry = "run" /\ Done /\ gen_outcome = "returned")
          => (strength >= 1 /\ stdout[4].label # "Very Weak")
    /\ (gen_outcome = "returned" /\ self.length >= 6 /\ self.length <= 32)
          => assess_strength(password) >= 1

C10_Witness ==
    /\ entry = "run" /\ Done /\ gen_outcome = "returned" /\ exit_code = 0
    /\ strength = 1 /\ stdout[4].label = "Weak"

\* The six unit tests of the strength score, by number.
UnitTest(t, p) ==
    CASE t = 1 -> Len(p) >= 12
      [] t = 2 -> Len(p) >= 16
      [] t = 3 -> \E i \in 1..Len(p) : isupper(p[i])
      [] t = 4 -> \E i \in 1..Len(p) : islower(p[i])
      [] t = 5 -> \E i \in 1..Len(p) : isdigit(p[i])
      [] t = 6 -> \E i \in 1..Len(p) : in_punctuation(p[i])

\* The number of unit tests p passes.
Score(p) == Cardinality({t \in 1..6 : UnitTest(t, p)})

\* C7: assess_strength returns min(4, s), s the number of the six unit
\* tests the string passes, a level in 0..4; "Ab3!Ab3!Ab3!" gives level 4
\* and "abcdefgh" level 1.
C7_ClampedScore ==
    (entry = "assess_strength" /\ pc # "assess_strength") =>
        /\ strength = (IF Score(password) < 4 THEN Score(password) ELSE 4)
        /\ strength \in 0..4
        /\ password = ExampleStrong => strength = 4
        /\ password = ExampleWeak => strength = 1

C7_Witness ==
    /\ entry = "assess_strength" /\ Done
    /\ password = ExampleStrong /\ Score(password) = 5 /\ strength = 4

\* The labels of the five levels.
LevelLabel(v) ==
    CASE v = 0 -> "Very Weak" [] v = 1 -> "Weak" [] v = 2 -> "Medium"
      [] v = 3 -> "Strong" [] v = 4 -> "Very Strong"

\* C9: for every level in 0..4 print_strength_meter prints a meter of
\* exactly 5 cells between the brackets, level + 1 filled cells followed by
\* 4 - level empty ones, with the level's label.
C9_MeterCells ==
    (entry = "assess_strength" /\ Done) =>
        LET m == stdout[Len(stdout)]
            cells == SubSeq(m.text, 2, Len(m.text) - 1)
        IN  /\ m.text[1] = 91
            /\ m.text[Len(m.text)] = 93
            /\ Len(cells) = 5
            /\ \A i \in 1..5 :
                  cells[i] = IF i <= strength + 1 THEN 9608 ELSE 32
            /\ Cardinality({i \in 1..5 : cells[i] = 9608}) = strength + 1
            /\ Cardinality({i \in 1..5 : cells[i] = 32}) = 4 - strength
            /\ m.label = LevelLabel(strength)

C9_Witness ==
    /\ entry = "assess_strength" /\ Done /\ strength = 0
    /\ stdout[2].text = <<91, 9608, 32, 32, 32, 32, 93>>
    /\ stdout[2].label = "Very Weak"

\* The categories of which p holds a character.
Categories(p) ==
    {t \in 3..6 : UnitTest(t, p)}

\* C8: for two strings holding the same set of character categories, the
\* longer one is never assessed as weaker than the shorter one.
C8_MonotonicInLength ==
    (entry = "compare" /\ Done /\ Categories(password) = Categories(other)
        /\ Len(password) <= Len(other))
    => strength <= other_strength

C8_Witness ==
    /\ entry = "compare" /\ Done
    /\ Categories(password) = Categories(other)
    /\ Categories(password) = {3, 4}
    /\ Len(password) = 11 /\ Len(other) = 16
    /\ strength = 2 /\ other_strength = 4

====
